---- MODULE Spec2Model ----
(***************************************************************************)
(* State-machine model of the CloudCoffee backend and two of its views:    *)
(*   - the persistence routes (server/routes/persistence.ts): one JSON     *)
(*     store document plus a directory of image files;                     *)
(*   - the Gemini gateway routes (server/routes/gemini.ts): the text and   *)
(*     image endpoints, generateText with its fallback model, and the      *)
(*     error classifier.                                                   *)
(*   - ChatView and VisionView of the frontend (src/App.tsx): a handler    *)
(*     is one action per stretch between awaits.                           *)
(* Every persistence handler is synchronous (fs.*Sync only), so a handler  *)
(* is one atomic action of the Node event loop.  A gateway handler awaits  *)
(* its remote calls, so it is one action per stretch between awaits.       *)
(***************************************************************************)
EXTENDS Integers, Sequences, FiniteSets, TLC

VARIABLES
    clock,        \* the value Date.now() returns next (epoch millis)
    STORE_FILE,   \* data/store.json: [exists, version, cols]
    IMAGES_DIR,   \* the set of file names present in data/images
    req,          \* the request handled last
    res,          \* the response sent for it: [status, body]
    took,         \* the path the handler of that request took
    greq,         \* the gateway request being served: [endpoint, imageData]
    gpc,          \* where its handler stands: idle, primary, fallback, image, done
    calls,        \* the models invoked for it so far, in order
    remote,       \* the response the remote model returned for it
    thrown,       \* the error its catch block caught
    gres,         \* the status and error body sent for it: [status, error, code]
    payload,      \* the success body sent for it
    warned,       \* the primary model's error that generateText logged
    storeData,    \* App.storeData, the store as the views were last given it
    sessionId,    \* ChatView: the id the conversation is saved under
    viewMessages, \* ChatView: messages, the messages shown
    loading,      \* ChatView: a send is in flight
    selectedSessionId, \* ChatView: the session highlighted in the sidebar
    sending,      \* ChatView: what the handleSend in flight closed over
    chatServer,   \* the chat sessions the server holds
    refreshing,   \* a refreshStore() is in flight
    activeCamera, \* VisionView: index of the selected camera
    mainImage,    \* VisionView: the image shown
    analysisResult, \* VisionView: the analysis result held
    analyzing,    \* VisionView: the spinner flag of performAnalysis
    saving,       \* VisionView: a save of the analysis is in flight
    analyses,     \* VisionView: the analyzeImage calls in flight
    visionSave,   \* VisionView: the body of the saveVisionAnalysis call in flight
    autosaves     \* VisionView: the saveGeneratedImage calls of uploads in flight

pvars == <<clock, STORE_FILE, IMAGES_DIR, req, res, took>>
gvars == <<greq, gpc, calls, remote, thrown, gres, payload, warned>>
vars == <<clock, STORE_FILE, IMAGES_DIR, req, res, took,
          greq, gpc, calls, remote, thrown, gres, payload, warned,
          storeData, sessionId, viewMessages, loading, selectedSessionId, sending,
          chatServer, refreshing, activeCamera, mainImage, analysisResult,
          analyzing, saving, analyses, visionSave, autosaves>>
cvars == <<sessionId, viewMessages, loading, selectedSessionId, sending,
           chatServer, refreshing>>
vvars == <<activeCamera, mainImage, analysisResult, analyzing, saving,
           analyses, visionSave, autosaves>>
uivars == <<storeData, cvars, vvars>>

----------------------------------------------------------------------------
(* Bounds *)

\* Date.now() ranges over 0..MaxTime
MaxTime == 1
\* a save is refused by the model once the store holds this many entities
MaxEntities == 2
\* an upstream error message has at most this many pieces
MaxMsgLen == 2
MaxFiles == 2
MaxChatLen == 5
MaxInFlight == 2
MaxAutosaves == 1
MaxStoredImages == 1

----------------------------------------------------------------------------
(* Values *)

\* JavaScript null / undefined
Null == <<>>
Undefined == [kind |-> "undefined"]

\* interface StoreData: the collection keys
Keys == {"generatedImages", "visionAnalyses", "chatSessions",
         "sustainabilityReports", "dashboardSnapshots"}

\* outcomes of Math.random().toString(36).slice(2, 6)
Rand == {"a", "b"}

Times == 0..MaxTime

\* request-body values that the handlers only copy into the entity
CameraNames == {"Frente de Caixa"}
Tasks == {"count people"}
Results == {"1 person"}
MessageLists == {<<"m1">>, <<"m1", "m2">>}

(* An imageData string is a sequence of lexical pieces: the literal        *)
(* "data:image/", a run of word characters, a printable non-word           *)
(* character, the literal ";base64," and a line terminator.                *)
PREFIX == "data:image/"
WORD == "png"
NONWORD == "+"
BASE64 == ";base64,"
NEWLINE == "\n"

Str(s) == [kind |-> "string", chars |-> s]
Num(n) == [kind |-> "number", num |-> n]

ImageStrings ==
    { <<>>,                                  \* ""
      <<PREFIX, WORD, BASE64, WORD>>,        \* data:image/png;base64,png
      <<PREFIX, WORD, WORD, BASE64, WORD, NONWORD>>,
      <<PREFIX, WORD, BASE64>>,              \* no payload after the comma
      <<PREFIX, WORD, NONWORD, WORD, BASE64, WORD>>, \* image/svg+xml
      <<PREFIX, WORD, BASE64, WORD, NEWLINE>>,
      <<NONWORD, WORD>>,                     \* /api/data/images/img_1.png
      <<WORD, PREFIX, WORD, BASE64, WORD>> } \* not anchored at the start

ImageDatas == {Undefined, Num(123)} \cup {Str(s) : s \in ImageStrings}

\* JavaScript truthiness of a request-body value
Truthy(v) ==
    CASE v.kind = "undefined" -> FALSE
      [] v.kind = "number" -> v.num # 0
      [] v.kind = "string" -> Len(v.chars) > 0

IsWordPiece(c) == c = WORD
IsDotPiece(c) == c # NEWLINE

\* imageData.match(/^data:image\/\w+;base64,(.+)$/) # null, for a string
DataUriMatch(s) ==
    \E k \in 3..Len(s) :
        /\ s[1] = PREFIX
        /\ \A i \in 2..(k - 1) : IsWordPiece(s[i])
        /\ s[k] = BASE64
        /\ k < Len(s)
        /\ \A i \in (k + 1)..Len(s) : IsDotPiece(s[i])

----------------------------------------------------------------------------
(* Store document *)

\* the document readStore() writes when store.json is absent
EmptyCols == [k \in Keys |-> <<>>]

NoFile == [exists |-> FALSE, version |-> 0, cols |-> <<>>]
FileOf(ver, cols) == [exists |-> TRUE, version |-> ver, cols |-> cols]

\* number of entities in a document
Size(cols) ==
    LET RECURSIVE Sum(_)
        Sum(ks) == IF ks = {} THEN 0
                   ELSE LET k == CHOOSE x \in ks : TRUE
                        IN Len(cols[k]) + Sum(ks \ {k})
    IN Sum(DOMAIN cols)

\* readStore(): the document the handler works on, and the file afterwards
ReadStoreNoMigrate(cols) == cols
ReadStoreMigrate(cols) ==
    IF "generatedImages" \in DOMAIN cols THEN cols
    ELSE [k \in (DOMAIN cols) \cup {"generatedImages"} |->
            IF k \in DOMAIN cols THEN cols[k] ELSE <<>>]

\* readStore() that returns the empty document without writing it
readStoreNoSeed ==
    IF ~STORE_FILE.exists
    THEN [store |-> [version |-> 1, cols |-> EmptyCols], file |-> STORE_FILE]
    ELSE [store |-> [version |-> STORE_FILE.version,
                     cols |-> ReadStoreMigrate(STORE_FILE.cols)],
          file |-> STORE_FILE]

readStore ==
    IF ~STORE_FILE.exists
    THEN [store |-> [version |-> 1, cols |-> EmptyCols],
          file |-> FileOf(1, EmptyCols)]
    ELSE [store |-> [version |-> STORE_FILE.version,
                     cols |-> ReadStoreMigrate(STORE_FILE.cols)],
          file |-> STORE_FILE]

\* writeStore(data)
writeStore(store) == FileOf(store.version, store.cols)

\* arr.unshift(entry)
UnshiftAtEnd(arr, entry) == arr \o <<entry>>
Unshift(arr, entry) == <<entry>> \o arr

\* findIndex whose -1 goes unnoticed: splice(-1, 1) addresses the last element
FindIndexOrLast(arr, id) ==
    IF \E i \in 1..Len(arr) : arr[i].id = id
    THEN CHOOSE i \in 1..Len(arr) :
            /\ arr[i].id = id
            /\ \A j \in 1..(i - 1) : arr[j].id # id
    ELSE Len(arr)

\* arr.findIndex(item => item.id === id); 0 stands for -1
FindIndex(arr, id) ==
    IF \E i \in 1..Len(arr) : arr[i].id = id
    THEN CHOOSE i \in 1..Len(arr) :
            /\ arr[i].id = id
            /\ \A j \in 1..(i - 1) : arr[j].id # id
    ELSE 0

\* arr.splice(idx): everything from idx on is removed
SpliceFrom(arr, idx) == SubSeq(arr, 1, idx - 1)

\* arr.splice(idx, 1)
Splice(arr, idx) == [i \in 1..(Len(arr) - 1) |->
                        IF i < idx THEN arr[i] ELSE arr[i + 1]]

\* if (fs.existsSync(imagePath)) fs.unlinkSync(imagePath)
UnlinkKeep(dir, file) == dir
Unlink(dir, file) == dir \ {file}

\* the session is taken out and put at the front
ReplaceAtFront(arr, existingIndex, session) ==
    <<session>> \o SubSeq(arr, 1, existingIndex - 1)
                \o SubSeq(arr, existingIndex + 1, Len(arr))

\* store.chatSessions[existingIndex] = session
ReplaceAt(arr, existingIndex, session) == [arr EXCEPT ![existingIndex] = session]

\* startedAt: existingIndex >= 0 ? chatSessions[existingIndex].startedAt : now
StartedAtNow(arr, existingIndex, now) == now
StartedAt(arr, existingIndex, now) ==
    IF existingIndex > 0 THEN arr[existingIndex].startedAt ELSE now

\* store[key] = arr on a document whose other collections are stale (empty)
WithColAlone(store, key, arr) ==
    [store EXCEPT !.cols = [k \in DOMAIN store.cols |->
                               IF k = key THEN arr ELSE <<>>]]

\* store[key] = arr
WithCol(store, key, arr) ==
    [store EXCEPT !.cols = [store.cols EXCEPT ![key] = arr]]

\* non-decreasing sequences of n successive Date.now() readings
NowReads(n) ==
    { ts \in [1..n -> Times] :
        /\ ts[1] >= clock
        /\ \A i \in 1..(n - 1) : ts[i] <= ts[i + 1] }


----------------------------------------------------------------------------
(* Entities and identifiers *)

\* `genimg_${Date.now()}_${rand}`, `vision_${Date.now()}`, ...
GenImgId(t, r) == <<"genimg", t, r>>
VisionId(t) == <<"vision", t>>
ChatId(t) == <<"chat", t>>
SustId(t) == <<"sust", t>>
DashId(t) == <<"dash", t>>

\* `gen_${Date.now()}_${rand}.png`, `img_${Date.now()}.png`
GenFile(t, r) == <<"gen", t, r, ".png">>
ImgFile(t) == <<"img", t, ".png">>

\* ids the ChatView sends: `chat_${Date.now()}` computed in the browser, or none
ChatRequestIds == {Null} \cup {ChatId(t) : t \in Times}

\* an id no entity ever gets
NoSuchId == <<"nope">>

\* the :collection route parameter
CollectionNames == {"generated-images", "vision", "chat", "sustainability",
                    "dashboard", "images", "constructor"}

\* collectionMap[collection]; "" stands for undefined, "inherited" for a
\* property found on Object.prototype (a function, hence truthy)
collectionMap(collection) ==
    CASE collection = "generated-images" -> "generatedImages"
      [] collection = "vision" -> "visionAnalyses"
      [] collection = "chat" -> "chatSessions"
      [] collection = "sustainability" -> "sustainabilityReports"
      [] collection = "dashboard" -> "dashboardSnapshots"
      [] collection = "constructor" -> "inherited"
      [] OTHER -> ""

\* the :id route parameters tried against a collection: the ids stored in
\* it, the id of the delete handled last, and an id that is never stored
DeleteIds(collection) ==
    LET key == collectionMap(collection)
        arr == IF STORE_FILE.exists /\ key \in DOMAIN STORE_FILE.cols
               THEN STORE_FILE.cols[key] ELSE <<>>
    IN {NoSuchId}
       \cup {arr[i].id : i \in 1..Len(arr)}
       \cup (IF req.op = "delete" /\ req.collection = collection
             THEN {req.id} ELSE {})

\* res.status(n).json(body)
Response(status, body) == [status |-> status, body |-> body]
ErrorBody(msg) == [error |-> msg]

\* the model stops creating entities at MaxEntities
HasRoom == (~STORE_FILE.exists) \/ Size(STORE_FILE.cols) < MaxEntities

----------------------------------------------------------------------------
(* Gemini error classification (server/routes/gemini.ts) *)

(* An error message is a sequence of pieces; msg.includes(x) holds when a  *)
(* piece contains x.  Pieces are the indicator substrings the classifier   *)
(* scans for, spellings of them in another case, and unrelated text.       *)
MsgPieces == {"429", "RESOURCE_EXHAUSTED", "Rate Limit", "Quota", "quota",
              "503", "UNAVAILABLE", "unavailable",
              "400", "INVALID_ARGUMENT", "SAFETY",
              "401", "403", "PERMISSION_DENIED", "UNAUTHENTICATED",
              "fetch failed"}

\* String.prototype.toLowerCase on a piece
ToLowerCase(piece) ==
    CASE piece = "RESOURCE_EXHAUSTED" -> "resource_exhausted"
      [] piece = "Rate Limit" -> "rate limit"
      [] piece = "Quota" -> "quota"
      [] piece = "UNAVAILABLE" -> "unavailable"
      [] piece = "INVALID_ARGUMENT" -> "invalid_argument"
      [] piece = "SAFETY" -> "safety"
      [] piece = "PERMISSION_DENIED" -> "permission_denied"
      [] piece = "UNAUTHENTICATED" -> "unauthenticated"
      [] piece = "Error" -> "error"
      [] OTHER -> piece

\* msg.includes(x)
Includes(msg, x) == \E i \in 1..Len(msg) : msg[i] = x
\* msg.toLowerCase().includes(x)
LowerIncludes(msg, x) == \E i \in 1..Len(msg) : ToLowerCase(msg[i]) = x

Messages == UNION {[1..n -> MsgPieces] : n \in 0..MaxMsgLen}

\* numeric fields of a thrown error; 0 stands for a field that is not set
StatusValues == {0, 400, 401, 403, 404, 429, 500, 503}

Errors == [message : Messages, status : StatusValues, statusCode : {0, 429},
           httpStatusCode : {0, 503}, code : {0, 403}]

\* no error was caught (a status no error carries)
NoError == [message |-> <<>>, status |-> -1, statusCode |-> 0,
            httpStatusCode |-> 0, code |-> 0]
NoResponse == [status |-> 0, error |-> <<>>, code |-> ""]

\* a || b on numbers
OrElse(a, b) == IF a # 0 THEN a ELSE b

\* error.message || String(error)
ErrorMsg(error) == IF error.message # <<>> THEN error.message ELSE <<"Error">>

\* error.status || error.statusCode || error.httpStatusCode || error.code
ErrorStatus(error) ==
    OrElse(OrElse(OrElse(error.status, error.statusCode),
                  error.httpStatusCode), error.code)

\* the conditions of the four if statements of parseGeminiError
IsRateLimit(status, msg) ==
    \/ status = 429
    \/ Includes(msg, "429")
    \/ Includes(msg, "RESOURCE_EXHAUSTED")
    \/ LowerIncludes(msg, "rate limit")
    \/ LowerIncludes(msg, "quota")

IsUnavailable(status, msg) ==
    status = 503 \/ Includes(msg, "503") \/ Includes(msg, "UNAVAILABLE")

IsBadRequest(status, msg) ==
    \/ status = 400
    \/ Includes(msg, "400")
    \/ Includes(msg, "INVALID_ARGUMENT")
    \/ Includes(msg, "SAFETY")

IsAuth(status, msg) ==
    \/ status = 401
    \/ status = 403
    \/ Includes(msg, "401")
    \/ Includes(msg, "403")
    \/ Includes(msg, "PERMISSION_DENIED")
    \/ Includes(msg, "UNAUTHENTICATED")

\* the object each branch returns
Parsed(status, message, code) ==
    [status |-> status, message |-> message, code |-> code]

RateLimitMessage == <<"Limite de requisicoes da API Gemini atingido.">>
UnavailableMessage == <<"O servico Gemini esta temporariamente indisponivel.">>
BadRequestMessage == <<"A requisicao foi bloqueada.">>
AuthMessage == <<"Erro de autenticacao com a API Gemini.">>
InternalMessage(msg) == <<"Erro interno ao chamar a API Gemini: ">> \o msg

\* parseGeminiError answering an auth failure with the upstream status
parseGeminiErrorKeepStatus(error) ==
    LET msg == ErrorMsg(error)
        status == ErrorStatus(error)
    IN
    IF IsRateLimit(status, msg) THEN Parsed(429, RateLimitMessage, "RATE_LIMITED")
    ELSE IF IsUnavailable(status, msg)
    THEN Parsed(503, UnavailableMessage, "SERVICE_UNAVAILABLE")
    ELSE IF IsBadRequest(status, msg)
    THEN Parsed(400, BadRequestMessage, "BAD_REQUEST")
    ELSE IF IsAuth(status, msg)
    THEN Parsed(IF status = 401 THEN 401 ELSE 403, AuthMessage, "AUTH_ERROR")
    ELSE Parsed(500, InternalMessage(msg), "INTERNAL_ERROR")

\* parseGeminiError testing the auth indicators before the rate-limit ones
parseGeminiErrorAuthFirst(error) ==
    LET msg == ErrorMsg(error)
        status == ErrorStatus(error)
    IN
    IF IsAuth(status, msg) THEN Parsed(403, AuthMessage, "AUTH_ERROR")
    ELSE IF IsRateLimit(status, msg)
    THEN Parsed(429, RateLimitMessage, "RATE_LIMITED")
    ELSE IF IsUnavailable(status, msg)
    THEN Parsed(503, UnavailableMessage, "SERVICE_UNAVAILABLE")
    ELSE IF IsBadRequest(status, msg)
    THEN Parsed(400, BadRequestMessage, "BAD_REQUEST")
    ELSE Parsed(500, InternalMessage(msg), "INTERNAL_ERROR")

\* function parseGeminiError(error)
parseGeminiError(error) ==
    LET msg == ErrorMsg(error)
        status == ErrorStatus(error)
    IN
    IF IsRateLimit(status, msg) THEN Parsed(429, RateLimitMessage, "RATE_LIMITED")
    ELSE IF IsUnavailable(status, msg)
    THEN Parsed(503, UnavailableMessage, "SERVICE_UNAVAILABLE")
    ELSE IF IsBadRequest(status, msg)
    THEN Parsed(400, BadRequestMessage, "BAD_REQUEST")
    ELSE IF IsAuth(status, msg)
    THEN Parsed(403, AuthMessage, "AUTH_ERROR")
    ELSE Parsed(500, InternalMessage(msg), "INTERNAL_ERROR")

\* function handleGeminiError(res, endpoint, error), called from an
\* endpoint's catch block: the status and the body it sends
handleGeminiError(endpoint, error) ==
    LET parsed == parseGeminiError(error)
    IN [status |-> parsed.status, error |-> parsed.message, code |-> parsed.code]

\* res.json(body): status 200, no error body
Ok == [status |-> 200, error |-> <<>>, code |-> ""]
NoPayload == [none |-> TRUE]

\* const textModel, textModelFallback, imageModel
textModel == "gemini-3-flash-preview"
textModelFallback == "gemini-3.1-pro-preview"
imageModel == "gemini-3.1-flash-image-preview"

\* the endpoints that call generateText
TextEndpoints == {"analyze-image", "store-insights", "sustainability-report",
                  "dashboard-insights", "daily-briefing", "feedback-analysis"}
PlainTextEndpoints == TextEndpoints \ {"analyze-image"}

(* The text of a remote response.  "" stands for response.text being       *)
(* undefined or empty (both are falsy); the others are a text that is not  *)
(* JSON, the JSON literal null, and JSON objects with and without charts.  *)
NotJson == "Segue o relatorio: ..."
JsonNull == "null"
JsonNoCharts == "{text: t, summary: s}"
JsonWithCharts == "{text: t, summary: s, charts: [c]}"
RemoteTexts == {"", NotJson, JsonNull, JsonNoCharts, JsonWithCharts}

\* JSON.parse(text): ok is FALSE when it throws a SyntaxError
JSONParse(text) ==
    CASE text = "{}" ->
            [ok |-> TRUE, value |-> [kind |-> "object", has |-> {},
                                     text |-> "", summary |-> "", charts |-> <<>>]]
      [] text = JsonNoCharts ->
            [ok |-> TRUE, value |-> [kind |-> "object", has |-> {"text", "summary"},
                                     text |-> "t", summary |-> "s", charts |-> <<>>]]
      [] text = JsonWithCharts ->
            [ok |-> TRUE, value |-> [kind |-> "object",
                                     has |-> {"text", "summary", "charts"},
                                     text |-> "t", summary |-> "s",
                                     charts |-> <<"c">>]]
      [] text = JsonNull -> [ok |-> TRUE, value |-> [kind |-> "null"]]
      [] OTHER -> [ok |-> FALSE, value |-> [kind |-> "none"]]

\* the remote responses: with no candidate there is no text
NoRemote == [candidates |-> -1, text |-> "", parts |-> "none"]
TextResponses ==
    {[candidates |-> 0, text |-> "", parts |-> "none"]}
    \cup {[candidates |-> 1, text |-> t, parts |-> "text"] : t \in RemoteTexts}
ImageResponses ==
    {[candidates |-> 0, text |-> "", parts |-> "none"],
     [candidates |-> 1, text |-> "", parts |-> "undefined"],
     [candidates |-> 1, text |-> "t", parts |-> "text"],
     [candidates |-> 1, text |-> "", parts |-> "inlineData"]}

\* const text = response.text || '{}'; const parsed = JSON.parse(text)
ParsedText(response) ==
    JSONParse(IF response.text # "" THEN response.text ELSE "{}")

\* the inner try block runs to its end: the text parses and the property
\* reads on the parsed value do not throw
ParsesToObject(response) ==
    ParsedText(response).ok /\ ParsedText(response).value.kind = "object"

\* parsed.charts || [] and parsed.text || ''
ChartsOf(value) == IF "charts" \in value.has THEN value.charts ELSE <<>>
TextOf(value) == IF "text" \in value.has THEN value.text ELSE ""

\* the body of the five endpoints that answer { text, charts, ... }; their
\* further fields (insights, actionItems, ...) are defaulted like charts
PlainPayload(response) ==
    IF ParsesToObject(response)
    THEN [text |-> TextOf(ParsedText(response).value),
          charts |-> ChartsOf(ParsedText(response).value)]
    ELSE [text |-> response.text, charts |-> <<>>]

\* the body of analyze-image
AnalyzePayload(response) ==
    IF response.candidates = 0
    THEN [summary |-> "A IA nao conseguiu analisar a imagem.", charts |-> <<>>]
    ELSE IF ParsesToObject(response)
    THEN [summary |-> ParsedText(response).value.summary,
          charts |-> ChartsOf(ParsedText(response).value)]
    ELSE [summary |-> "Erro ao processar a resposta da IA.", charts |-> <<>>]

\* the body of generate-image
ImagePayload(response) ==
    IF response.candidates = 0 \/ response.parts = "undefined"
    THEN [image |-> "", error |-> "No candidates returned"]
    ELSE IF response.parts = "inlineData"
    THEN [image |-> "data:image/png;base64,...", error |-> ""]
    ELSE [image |-> "", error |-> "No image data in response"]

\* the SyntaxError JSON.parse throws
SyntaxError == [message |-> <<"Unexpected token">>, status |-> 0,
                statusCode |-> 0, httpStatusCode |-> 0, code |-> 0]

\* the answer of a text endpoint whose parse failure reaches the outer catch
RespondUnguarded(endpoint, response) ==
    IF response.candidates = 0 \/ ParsesToObject(response)
    THEN [gres |-> Ok,
          payload |-> IF endpoint = "analyze-image" THEN AnalyzePayload(response)
                      ELSE PlainPayload(response)]
    ELSE [gres |-> handleGeminiError(endpoint, SyntaxError), payload |-> NoPayload]

\* the answer of a text endpoint to a remote response: what follows
\* `await generateText(...)` inside the handler
Respond(endpoint, response) ==
    [gres |-> Ok,
     payload |-> IF endpoint = "analyze-image" THEN AnalyzePayload(response)
                 ELSE PlainPayload(response)]

(* The imageData of an analyze-image request: a string with the prefix the *)
(* handler tests with startsWith and the rest, or no string at all.        *)
Text(prefix, rest) == [kind |-> "string", prefix |-> prefix, rest |-> rest]
DataPrefix == "data:"
ImagesPrefix == "/api/data/images/"
AnalyzeImageDatas ==
    {Undefined,
     Text(DataPrefix, <<"image/png;base64,AAAA">>),
     Text("", <<"https://example.com/a.png">>)}
    \cup {Text(ImagesPrefix, ImgFile(t)) : t \in Times}

\* the TypeError of imageData.startsWith on a value that is not a string
TypeError == [message |-> <<"Cannot read properties of undefined">>,
              status |-> 0, statusCode |-> 0, httpStatusCode |-> 0, code |-> 0]

NoRequest == [endpoint |-> "none", imageData |-> Undefined]
BadRequest(msg) == [status |-> 400, error |-> <<msg>>, code |-> "BAD_REQUEST"]

\* no gateway request is being served
Idle == gpc \in {"idle", "done"}

\* router.post('/generate-image'), up to its await
GenerateImageStart ==
    /\ Idle
    /\ greq' = [endpoint |-> "generate-image", imageData |-> Undefined]
    /\ gpc' = "image"
    /\ calls' = <<imageModel>>
    /\ remote' = NoRemote
    /\ thrown' = NoError
    /\ gres' = NoResponse
    /\ payload' = NoPayload
    /\ warned' = NoError
    /\ UNCHANGED <<pvars, uivars>>

\* a handler that keeps the generated image in the images directory
ImageReturnsPersisting ==
    /\ gpc = "image"
    /\ \E r \in ImageResponses :
        /\ remote' = r
        /\ gres' = Ok
        /\ payload' = ImagePayload(r)
        /\ gpc' = "done"
        /\ IMAGES_DIR' = IMAGES_DIR \cup {GenFile(clock, 0)}
        /\ UNCHANGED <<greq, calls, thrown, warned, clock, STORE_FILE, req, res, took,
                     uivars>>

\* ... its remote call returns
ImageReturns ==
    /\ gpc = "image"
    /\ \E r \in ImageResponses :
        /\ remote' = r
        /\ gres' = Ok
        /\ payload' = ImagePayload(r)
        /\ gpc' = "done"
        /\ UNCHANGED <<greq, calls, thrown, warned, pvars, uivars>>

\* ... its remote call throws
ImageFails ==
    /\ gpc = "image"
    /\ \E e \in Errors :
        /\ thrown' = e
        /\ gres' = handleGeminiError(greq.endpoint, e)
        /\ gpc' = "done"
        /\ UNCHANGED <<greq, calls, remote, payload, warned, pvars, uivars>>

\* router.post('/analyze-image'), up to its await of generateText
AnalyzeImageStart ==
    /\ Idle
    /\ \E d \in AnalyzeImageDatas :
        /\ greq' = [endpoint |-> "analyze-image", imageData |-> d]
        /\ remote' = NoRemote
        /\ payload' = NoPayload
        /\ warned' = NoError
        /\ UNCHANGED <<pvars, uivars>>
        /\ IF d.kind # "string"
           THEN /\ thrown' = TypeError
                /\ gres' = handleGeminiError("analyze-image", TypeError)
                /\ calls' = <<>>
                /\ gpc' = "done"
           ELSE IF d.prefix = ImagesPrefix /\ d.rest \notin IMAGES_DIR
           THEN /\ thrown' = NoError
                /\ gres' = BadRequest("Imagem nao encontrada no servidor.")
                /\ calls' = <<>>
                /\ gpc' = "done"
           ELSE IF d.prefix \notin {DataPrefix, ImagesPrefix}
           THEN /\ thrown' = NoError
                /\ gres' = BadRequest("Formato de imagem nao reconhecido.")
                /\ calls' = <<>>
                /\ gpc' = "done"
           ELSE /\ thrown' = NoError
                /\ gres' = NoResponse
                /\ calls' = <<textModel>>
                /\ gpc' = "primary"

\* the other five text endpoints, up to their await of generateText
TextEndpointStart ==
    /\ Idle
    /\ \E endpoint \in PlainTextEndpoints :
        /\ greq' = [endpoint |-> endpoint, imageData |-> Undefined]
        /\ gpc' = "primary"
        /\ calls' = <<textModel>>
        /\ remote' = NoRemote
        /\ thrown' = NoError
        /\ gres' = NoResponse
        /\ payload' = NoPayload
        /\ warned' = NoError
        /\ UNCHANGED <<pvars, uivars>>

\* generateText: the primary model returns, and the handler answers
PrimaryReturns ==
    /\ gpc = "primary"
    /\ \E r \in TextResponses :
        /\ remote' = r
        /\ gres' = Respond(greq.endpoint, r).gres
        /\ payload' = Respond(greq.endpoint, r).payload
        /\ gpc' = "done"
        /\ UNCHANGED <<greq, calls, thrown, warned, pvars, uivars>>

\* the errors the primary model throws: a rate limit and a network failure
PrimaryErrors ==
    {[message |-> <<"quota">>, status |-> 429, statusCode |-> 0,
      httpStatusCode |-> 0, code |-> 0],
     [message |-> <<"fetch failed">>, status |-> 0, statusCode |-> 0,
      httpStatusCode |-> 0, code |-> 0]}

\* generateText whose catch block calls the primary model again
PrimaryFailsRetry ==
    /\ gpc = "primary"
    /\ \E e \in PrimaryErrors :
        /\ warned' = e
        /\ calls' = Append(calls, textModel)
        /\ gpc' = "fallback"
        /\ UNCHANGED <<greq, remote, thrown, gres, payload, pvars, uivars>>

\* generateText: the primary model throws; its error is logged and the
\* fallback model is called
PrimaryFails ==
    /\ gpc = "primary"
    /\ \E e \in PrimaryErrors :
        /\ warned' = e
        /\ calls' = Append(calls, textModelFallback)
        /\ gpc' = "fallback"
        /\ UNCHANGED <<greq, remote, thrown, gres, payload, pvars, uivars>>

\* generateText: the fallback model returns, and the handler answers
FallbackReturns ==
    /\ gpc = "fallback"
    /\ \E r \in TextResponses :
        /\ remote' = r
        /\ gres' = Respond(greq.endpoint, r).gres
        /\ payload' = Respond(greq.endpoint, r).payload
        /\ gpc' = "done"
        /\ UNCHANGED <<greq, calls, thrown, warned, pvars, uivars>>

\* a catch block that classifies the primary model's error
FallbackFailsPrimary ==
    /\ gpc = "fallback"
    /\ \E e \in Errors :
        /\ thrown' = e
        /\ gres' = handleGeminiError(greq.endpoint, warned)
        /\ gpc' = "done"
        /\ UNCHANGED <<greq, calls, remote, payload, warned, pvars, uivars>>

\* generateText: the fallback model throws into the handler's catch block
FallbackFails ==
    /\ gpc = "fallback"
    /\ \E e \in Errors :
        /\ thrown' = e
        /\ gres' = handleGeminiError(greq.endpoint, e)
        /\ gpc' = "done"
        /\ UNCHANGED <<greq, calls, remote, payload, warned, pvars, uivars>>

----------------------------------------------------------------------------
(* The views of the single-page frontend (src/App.tsx): their state as it   *)
(* is when the view mounts.                                                *)

\* the opening message of a conversation belongs to no session
Greeting == [role |-> "assistant", conv |-> Null]
\* the message the catch block of handleSend adds; it is counted to no session
ErrorNotice == [role |-> "assistant", conv |-> Null]
NoSend == [phase |-> "none", sessionId |-> Null, messages |-> <<>>]

\* the cameras array of VisionView; a camera's task is told by its index
Cameras == {0, 1, 2}

\* images: data URIs read from an uploaded file, and URLs of stored files
Uploads == {[kind |-> "data", name |-> "A"], [kind |-> "data", name |-> "B"]}
\* `/api/data/images/${img.imageFile}`
ServerUrl(imageFile) == [kind |-> "server", name |-> imageFile]
NoImage == [kind |-> "null", name |-> ""]
NoResult == [image |-> NoImage, task |-> -1]
NoSave == [cameraName |-> -1, imageData |-> NoImage, task |-> -1,
           result |-> NoResult]

InitViews ==
    /\ storeData = [chatSessions |-> <<>>, generatedImages |-> {}]
    /\ sessionId = ChatId(0)
    /\ viewMessages = <<Greeting>>
    /\ loading = FALSE
    /\ selectedSessionId = Null
    /\ sending = NoSend
    /\ chatServer = <<>>
    /\ refreshing = FALSE
    /\ activeCamera = 0
    /\ mainImage = NoImage
    /\ analysisResult = NoResult
    /\ analyzing = FALSE
    /\ saving = FALSE
    /\ analyses = {}
    /\ visionSave = NoSave
    /\ autosaves = {}

\* the store and the images directory the gateway runs beside: one vision
\* analysis with its image file has been saved
SavedAnalysis ==
    [id |-> VisionId(0), cameraName |-> "Frente de Caixa",
     imageFile |-> ImgFile(0), task |-> "count people",
     result |-> "1 person", timestamp |-> 0]

InitGemini ==
    /\ clock = 0
    /\ STORE_FILE = FileOf(1, [EmptyCols EXCEPT !["visionAnalyses"] = <<SavedAnalysis>>])
    /\ IMAGES_DIR = {ImgFile(0)}
    /\ req = [op |-> "none"]
    /\ res = Response(0, [none |-> TRUE])
    /\ took = "none"
    /\ greq = NoRequest
    /\ gpc = "idle"
    /\ calls = <<>>
    /\ remote = NoRemote
    /\ thrown = NoError
    /\ gres = NoResponse
    /\ payload = NoPayload
    /\ warned = NoError
    /\ InitViews

NextGemini ==
    \/ GenerateImageStart
    \/ ImageReturns
    \/ ImageFails
    \/ AnalyzeImageStart
    \/ TextEndpointStart
    \/ PrimaryReturns
    \/ PrimaryFails
    \/ FallbackReturns
    \/ FallbackFails

SpecGemini == InitGemini /\ [][NextGemini]_vars

----------------------------------------------------------------------------
(* Initial states: no store file yet, or a store file left by an earlier    *)
(* run, possibly written before some collection key was introduced.        *)

\* key sets of such files: complete, one key missing, or no collection at all
LegacyKeySets == {Keys, {}} \cup {Keys \ {k} : k \in Keys}

LegacyDocs == {FileOf(1, [k \in P |-> <<>>]) : P \in LegacyKeySets}

Init ==
    /\ clock = 0
    /\ STORE_FILE \in {NoFile} \cup LegacyDocs
    /\ IMAGES_DIR = {}
    /\ req = [op |-> "none"]
    /\ res = Response(0, [none |-> TRUE])
    /\ took = "none"
    /\ greq = NoRequest
    /\ gpc = "idle"
    /\ calls = <<>>
    /\ remote = NoRemote
    /\ thrown = NoError
    /\ gres = NoResponse
    /\ payload = NoPayload
    /\ warned = NoError
    /\ InitViews

\* time passes between requests
TickStep ==
    /\ clock < MaxTime
    /\ clock' = clock + 1
    /\ UNCHANGED <<STORE_FILE, IMAGES_DIR, req, res, took>>

\* router.get('/data')
GetDataStep ==
    LET rs == readStore IN
    /\ req' = [op |-> "get"]
    /\ took' = "loaded"
    /\ res' = Response(200, rs.store)
    /\ STORE_FILE' = rs.file
    /\ UNCHANGED <<clock, IMAGES_DIR>>

\* router.post('/data/generated-image')
SaveGeneratedImageStep ==
    \E cam \in CameraNames, d \in ImageDatas :
        LET rs == readStore
            store == rs.store
        IN
        /\ HasRoom
        /\ req' = [op |-> "generated-image", cameraName |-> cam, imageData |-> d]
        /\ IF Truthy(d) /\ d.kind # "string"
           THEN \* imageData.match is not a function
                /\ res' = Response(500, ErrorBody("TypeError"))
                /\ took' = "threw"
                /\ STORE_FILE' = rs.file
                /\ UNCHANGED <<clock, IMAGES_DIR>>
           ELSE IF Truthy(d) /\ DataUriMatch(d.chars)
           THEN \E r1 \in Rand, r2 \in Rand, ts \in NowReads(3) :
                LET id == GenImgId(ts[1], r1)
                    imageFile == GenFile(ts[2], r2)
                    entry == [id |-> id, cameraName |-> cam,
                              imageFile |-> imageFile, timestamp |-> ts[3]]
                IN
                /\ IMAGES_DIR' = IMAGES_DIR \cup {imageFile}
                /\ STORE_FILE' = writeStore(WithCol(store, "generatedImages",
                        Unshift(store.cols["generatedImages"], entry)))
                /\ res' = Response(200, entry)
                /\ took' = "created"
                /\ clock' = ts[3]
           ELSE /\ res' = Response(400, ErrorBody("No valid image data provided"))
                /\ took' = "rejected"
                /\ STORE_FILE' = rs.file
                /\ UNCHANGED <<clock, IMAGES_DIR>>

\* router.post('/data/vision')
SaveVisionStep ==
    \E cam \in CameraNames, d \in ImageDatas, task \in Tasks, result \in Results :
        LET rs == readStore
            store == rs.store
            matched == Truthy(d) /\ DataUriMatch(d.chars)
        IN
        /\ HasRoom
        /\ req' = [op |-> "vision", cameraName |-> cam, imageData |-> d,
                   task |-> task, result |-> result]
        /\ IF Truthy(d) /\ d.kind # "string"
           THEN \* imageData.match is not a function
                /\ res' = Response(500, ErrorBody("TypeError"))
                /\ took' = "threw"
                /\ STORE_FILE' = rs.file
                /\ UNCHANGED <<clock, IMAGES_DIR>>
           ELSE \E ts \in NowReads(3) :
                LET id == VisionId(ts[1])
                    imageFile == IF matched THEN ImgFile(ts[2]) ELSE Null
                    entry == [id |-> id, cameraName |-> cam,
                              imageFile |-> imageFile, task |-> task,
                              result |-> result, timestamp |-> ts[3]]
                IN
                \* a reading that is not taken is not a choice
                /\ matched \/ ts[2] = ts[1]
                /\ IMAGES_DIR' = IF matched THEN IMAGES_DIR \cup {imageFile}
                                 ELSE IMAGES_DIR
                /\ clock' = ts[3]
                /\ IF "visionAnalyses" \in DOMAIN store.cols
                   THEN /\ STORE_FILE' = writeStore(WithCol(store, "visionAnalyses",
                                Unshift(store.cols["visionAnalyses"], entry)))
                        /\ res' = Response(200, entry)
                        /\ took' = "created"
                   ELSE \* store.visionAnalyses is undefined
                        /\ STORE_FILE' = rs.file
                        /\ res' = Response(500, ErrorBody("TypeError"))
                        /\ took' = "threw"

\* router.post('/data/chat')
SaveChatStep ==
    \E id \in ChatRequestIds, messages \in MessageLists :
        LET rs == readStore
            store == rs.store
            hasKey == "chatSessions" \in DOMAIN store.cols
            arr == IF hasKey THEN store.cols["chatSessions"] ELSE <<>>
            existingIndex == FindIndex(arr, id)
        IN
        /\ existingIndex = 0 => HasRoom
        /\ req' = [op |-> "chat", id |-> id, messages |-> messages]
        /\ UNCHANGED IMAGES_DIR
        /\ IF ~hasKey
           THEN \* store.chatSessions is undefined
                /\ res' = Response(500, ErrorBody("TypeError"))
                /\ took' = "threw"
                /\ STORE_FILE' = rs.file
                /\ UNCHANGED clock
           ELSE \E ts \in NowReads(3) :
                LET session == [id |-> IF id # Null THEN id ELSE ChatId(ts[1]),
                                messages |-> messages,
                                startedAt |-> StartedAt(arr, existingIndex, ts[2]),
                                lastMessageAt |-> ts[3]]
                IN
                \* a reading that is not taken is not a choice
                /\ id = Null \/ ts[1] = ts[2]
                /\ existingIndex = 0 \/ ts[2] = ts[3]
                /\ STORE_FILE' = writeStore(WithCol(store, "chatSessions",
                        IF existingIndex > 0
                        THEN ReplaceAt(arr, existingIndex, session)
                        ELSE Unshift(arr, session)))
                /\ res' = Response(200, session)
                /\ took' = IF existingIndex > 0 THEN "replaced" ELSE "created"
                /\ clock' = ts[3]

\* request-body values of the sustainability and dashboard saves
InputDatas == {"consumption"}
Reports == {"report"}
ChartLists == {Undefined}
Insights == {"insights"}

\* charts || []
OrEmpty(charts) == IF Truthy(charts) THEN charts ELSE Str(<<>>)

\* router.post('/data/sustainability')
SaveSustainabilityStep ==
    \E inputData \in InputDatas, report \in Reports, charts \in ChartLists,
       ts \in NowReads(2) :
        LET rs == readStore
            store == rs.store
            entry == [id |-> SustId(ts[1]), inputData |-> inputData,
                      report |-> report, charts |-> OrEmpty(charts),
                      timestamp |-> ts[2]]
        IN
        /\ HasRoom
        /\ req' = [op |-> "sustainability", inputData |-> inputData,
                   report |-> report, charts |-> charts]
        /\ clock' = ts[2]
        /\ UNCHANGED IMAGES_DIR
        /\ IF "sustainabilityReports" \in DOMAIN store.cols
           THEN /\ STORE_FILE' = writeStore(WithCol(store, "sustainabilityReports",
                        Unshift(store.cols["sustainabilityReports"], entry)))
                /\ res' = Response(200, entry)
                /\ took' = "created"
           ELSE \* store.sustainabilityReports is undefined
                /\ STORE_FILE' = rs.file
                /\ res' = Response(500, ErrorBody("TypeError"))
                /\ took' = "threw"

\* router.post('/data/dashboard')
SaveDashboardStep ==
    \E insights \in Insights, charts \in ChartLists, ts \in NowReads(2) :
        LET rs == readStore
            store == rs.store
            entry == [id |-> DashId(ts[1]), insights |-> insights,
                      charts |-> OrEmpty(charts), stats |-> Undefined,
                      text |-> "", timestamp |-> ts[2]]
        IN
        /\ HasRoom
        /\ req' = [op |-> "dashboard", insights |-> insights, charts |-> charts]
        /\ clock' = ts[2]
        /\ UNCHANGED IMAGES_DIR
        /\ IF "dashboardSnapshots" \in DOMAIN store.cols
           THEN /\ STORE_FILE' = writeStore(WithCol(store, "dashboardSnapshots",
                        Unshift(store.cols["dashboardSnapshots"], entry)))
                /\ res' = Response(200, entry)
                /\ took' = "created"
           ELSE \* store.dashboardSnapshots is undefined
                /\ STORE_FILE' = rs.file
                /\ res' = Response(500, ErrorBody("TypeError"))
                /\ took' = "threw"

\* router.delete('/data/:collection/:id')
DeleteEntryStep ==
    \E collection \in CollectionNames :
    \E id \in DeleteIds(collection) :
        LET rs == readStore
            store == rs.store
            key == collectionMap(collection)
            hasArr == key \in DOMAIN store.cols
            arr == IF hasArr THEN store.cols[key] ELSE <<>>
            idx == FindIndex(arr, id)
            ownsFile == /\ key \in {"visionAnalyses", "generatedImages"}
                        /\ arr[idx].imageFile # Null
        IN
        /\ req' = [op |-> "delete", collection |-> collection, id |-> id]
        /\ UNCHANGED clock
        /\ IF key = ""
           THEN /\ res' = Response(400, ErrorBody("Invalid collection"))
                /\ took' = "invalid collection"
                /\ STORE_FILE' = rs.file
                /\ UNCHANGED IMAGES_DIR
           ELSE IF ~hasArr
           THEN \* store[key] is undefined: arr.findIndex throws
                /\ res' = Response(500, ErrorBody("TypeError"))
                /\ took' = "threw"
                /\ STORE_FILE' = rs.file
                /\ UNCHANGED IMAGES_DIR
           ELSE IF idx = 0
           THEN /\ res' = Response(404, ErrorBody("Entry not found"))
                /\ took' = "not found"
                /\ STORE_FILE' = rs.file
                /\ UNCHANGED IMAGES_DIR
           ELSE /\ IMAGES_DIR' = IF ownsFile
                                 THEN Unlink(IMAGES_DIR, arr[idx].imageFile)
                                 ELSE IMAGES_DIR
                /\ STORE_FILE' = writeStore(WithCol(store, key, Splice(arr, idx)))
                /\ res' = Response(200, [success |-> TRUE])
                /\ took' = IF ownsFile THEN "deleted entity with image"
                           ELSE "deleted entity"

(* GET /data/images/:filename.  Express decodes the route parameter, so a  *)
(* request for ..%2Fstore.json arrives with filename "../store.json"; a     *)
(* filename is modelled by the number of leading ".." segments and the     *)
(* name that follows them.                                                 *)
StoreName == <<"store.json">>
MissingName == <<"nope.png">>
Filename(ups, name) == [ups |-> ups, name |-> name]
Filenames ==
    {Filename(0, f) : f \in IMAGES_DIR}
    \cup {Filename(0, MissingName), Filename(0, StoreName), Filename(1, StoreName)}

\* path.join(IMAGES_DIR, filename): the directory reached and the file in it
PathJoin(filename) ==
    [dir |-> CASE filename.ups = 0 -> "data/images"
               [] filename.ups = 1 -> "data"
               [] OTHER -> "elsewhere",
     name |-> filename.name]

\* fs.existsSync(filePath)
ExistsSync(filePath) ==
    \/ filePath.dir = "data/images" /\ filePath.name \in IMAGES_DIR
    \/ filePath.dir = "data" /\ filePath.name = StoreName /\ STORE_FILE.exists

\* router.get('/data/images/:filename')
ServeImageStep ==
    \E filename \in Filenames :
        LET filePath == PathJoin(filename) IN
        /\ req' = [op |-> "serve-image", filename |-> filename]
        /\ IF ~ExistsSync(filePath)
           THEN /\ res' = Response(404, ErrorBody("Image not found"))
                /\ took' = "not found"
           ELSE \* res.sendFile(filePath)
                /\ res' = Response(200, [file |-> filePath])
                /\ took' = "sent"
        /\ UNCHANGED <<clock, STORE_FILE, IMAGES_DIR>>

Tick == TickStep /\ UNCHANGED <<gvars, uivars>>
GetData == GetDataStep /\ UNCHANGED <<gvars, uivars>>
SaveGeneratedImage == SaveGeneratedImageStep /\ UNCHANGED <<gvars, uivars>>
SaveVision == SaveVisionStep /\ UNCHANGED <<gvars, uivars>>
SaveChat == SaveChatStep /\ UNCHANGED <<gvars, uivars>>
SaveSustainability == SaveSustainabilityStep /\ UNCHANGED <<gvars, uivars>>
SaveDashboard == SaveDashboardStep /\ UNCHANGED <<gvars, uivars>>
DeleteEntry == DeleteEntryStep /\ UNCHANGED <<gvars, uivars>>
ServeImage == ServeImageStep /\ UNCHANGED <<gvars, uivars>>

Next ==
    \/ Tick
    \/ GetData
    \/ SaveGeneratedImage
    \/ SaveVision
    \/ SaveChat
    \/ SaveSustainability
    \/ SaveDashboard
    \/ DeleteEntry
    \/ ServeImage

Spec == Init /\ [][Next]_vars


\* the event loop runs every handler whose request has arrived, and time
\* passes: no handler that stays enabled is put off for ever
Serving ==
    /\ WF_vars(Tick)
    /\ WF_vars(GetData)
    /\ WF_vars(SaveGeneratedImage)
    /\ WF_vars(SaveVision)
    /\ WF_vars(SaveChat)
    /\ WF_vars(SaveSustainability)
    /\ WF_vars(SaveDashboard)
    /\ WF_vars(DeleteEntry)
    /\ WF_vars(ServeImage)

SpecServing == Spec /\ Serving

\* a first deployment: the data directory holds no store file yet
InitFresh ==
    /\ Init
    /\ STORE_FILE = NoFile

SpecFresh == InitFresh /\ [][Next]_vars

----------------------------------------------------------------------------
(* The same handlers on a disk whose writes to store.json can fail.  A      *)
(* failed fs.writeFileSync leaves the file as it was when the open failed,  *)
(* and cut short when the write failed after the open truncated it; a file  *)
(* that is cut short is not JSON any more.  Only the write that ends an     *)
(* image save is made to fail.                                              *)

\* store.json cut short
Corrupt == [exists |-> TRUE, version |-> 0, cols |-> <<>>]
IsCorrupt(file) == file.exists /\ file.version = 0
Intact == ~IsCorrupt(STORE_FILE)

\* what a failed fs.writeFileSync(STORE_FILE, ...) can leave of the file
FailedWrite(file) == {file, Corrupt}

\* the model stops filling the images directory at MaxFiles
DiskHasRoom == Cardinality(IMAGES_DIR) < MaxFiles

\* a catch block that removes the image file the handler wrote
CatchSaveRollback(dir, imageFile) == dir \ {imageFile}

\* catch (error) { console.error(...); res.status(500).json(...) }: the
\* images directory stays as the handler left it
CatchSave(dir, imageFile) == dir

\* router.post('/data/generated-image') when writeStore throws
SaveGeneratedImageWriteFailsStep ==
    \E cam \in CameraNames, d \in ImageDatas, r2 \in Rand, ts \in NowReads(3) :
        LET rs == readStore
            imageFile == GenFile(ts[2], r2)
        IN
        /\ Intact
        /\ DiskHasRoom
        /\ Truthy(d) /\ d.kind = "string" /\ DataUriMatch(d.chars)
        /\ req' = [op |-> "generated-image", cameraName |-> cam, imageData |-> d]
        /\ IMAGES_DIR' = CatchSave(IMAGES_DIR \cup {imageFile}, imageFile)
        /\ STORE_FILE' \in FailedWrite(rs.file)
        /\ res' = Response(500, ErrorBody("ENOSPC"))
        /\ took' = "write failed"
        /\ clock' = ts[3]

\* router.post('/data/vision') when writeStore throws
SaveVisionWriteFailsStep ==
    \E cam \in CameraNames, d \in ImageDatas, task \in Tasks, result \in Results,
       ts \in NowReads(3) :
        LET rs == readStore
            imageFile == ImgFile(ts[2])
        IN
        /\ Intact
        /\ DiskHasRoom
        /\ Truthy(d) /\ d.kind = "string" /\ DataUriMatch(d.chars)
        /\ "visionAnalyses" \in DOMAIN rs.store.cols
        /\ req' = [op |-> "vision", cameraName |-> cam, imageData |-> d,
                   task |-> task, result |-> result]
        /\ IMAGES_DIR' = CatchSave(IMAGES_DIR \cup {imageFile}, imageFile)
        /\ STORE_FILE' \in FailedWrite(rs.file)
        /\ res' = Response(500, ErrorBody("ENOSPC"))
        /\ took' = "write failed"
        /\ clock' = ts[3]

\* a handler that loads the store when store.json is cut short: JSON.parse
\* in readStore throws into the catch block
LoadCorruptStep ==
    \E op \in {"get", "generated-image", "vision", "chat", "sustainability",
                "dashboard", "delete"} :
        /\ ~Intact
        /\ req' = [op |-> op]
        /\ res' = Response(500, ErrorBody("SyntaxError"))
        /\ took' = "threw"
        /\ UNCHANGED <<clock, STORE_FILE, IMAGES_DIR>>

SaveGeneratedImageWriteFails == SaveGeneratedImageWriteFailsStep /\ UNCHANGED <<gvars, uivars>>
SaveVisionWriteFails == SaveVisionWriteFailsStep /\ UNCHANGED <<gvars, uivars>>
LoadCorrupt == LoadCorruptStep /\ UNCHANGED <<gvars, uivars>>

\* the handlers that load the store, while store.json is JSON
LoadIntact ==
    /\ Intact
    /\ \/ GetData
       \/ SaveGeneratedImage
       \/ SaveVision
       \/ SaveChat
       \/ SaveSustainability
       \/ SaveDashboard
       \/ DeleteEntry

NextFaulty ==
    \/ Tick
    \/ ServeImage
    \/ LoadIntact
    \/ LoadCorrupt
    \/ SaveGeneratedImageWriteFails
    \/ SaveVisionWriteFails

SpecFaulty == InitFresh /\ [][NextFaulty]_vars

----------------------------------------------------------------------------
(* ChatView.  handleSend runs up to its await of getStoreInsights, then up  *)
(* to its await of saveChatSession, then to its end; between these the     *)
(* other handlers of the view run.  A message carries the id of the        *)
(* session under which it was written (the sessionId handleSend closed     *)
(* over).                                                                  *)

others == <<pvars, gvars>>

\* POST /data/chat as the view sees it: the session with this id is
\* replaced where it is, a new one is put first
Upsert(sessions, id, msgs) ==
    LET existingIndex == FindIndex(sessions, id)
        session == [id |-> id, messages |-> msgs]
    IN IF existingIndex > 0 THEN ReplaceAt(sessions, existingIndex, session)
       ELSE Unshift(sessions, session)

\* handleSend, up to `await getStoreInsights(...)`
HandleSend ==
    /\ ~loading
    /\ Len(viewMessages) + 2 <= MaxChatLen
    /\ LET userMessage == [role |-> "user", conv |-> sessionId]
           newMessages == Append(viewMessages, userMessage)
       IN /\ viewMessages' = newMessages
          /\ loading' = TRUE
          /\ sending' = [phase |-> "insights", sessionId |-> sessionId,
                         messages |-> newMessages]
    /\ UNCHANGED <<sessionId, selectedSessionId, chatServer, refreshing,
                   storeData, vvars, others>>

\* ... getStoreInsights returned: up to `await saveChatSession(...)`
InsightsReturn ==
    /\ sending.phase = "insights"
    /\ LET assistantMessage == [role |-> "assistant", conv |-> sending.sessionId]
           updatedMessages == Append(sending.messages, assistantMessage)
       IN /\ viewMessages' = updatedMessages
          /\ sending' = [phase |-> "save", sessionId |-> sending.sessionId,
                         messages |-> updatedMessages]
    /\ UNCHANGED <<sessionId, loading, selectedSessionId, chatServer,
                   refreshing, storeData, vvars, others>>

\* ... getStoreInsights threw: the catch block and finally
InsightsFail ==
    /\ sending.phase = "insights"
    /\ Len(viewMessages) < MaxChatLen
    /\ viewMessages' = Append(viewMessages, ErrorNotice)
    /\ loading' = FALSE
    /\ sending' = NoSend
    /\ UNCHANGED <<sessionId, selectedSessionId, chatServer, refreshing,
                   storeData, vvars, others>>

\* ... saveChatSession returned (the server has stored the session):
\* refreshStore() is called and not awaited, then finally
SaveReturns ==
    /\ sending.phase = "save"
    /\ chatServer' = Upsert(chatServer, sending.sessionId, sending.messages)
    /\ refreshing' = TRUE
    /\ loading' = FALSE
    /\ sending' = NoSend
    /\ UNCHANGED <<sessionId, viewMessages, selectedSessionId, storeData,
                   vvars, others>>

\* ... saveChatSession threw: the catch block and finally
SaveFails ==
    /\ sending.phase = "save"
    /\ Len(viewMessages) < MaxChatLen
    /\ viewMessages' = Append(viewMessages, ErrorNotice)
    /\ loading' = FALSE
    /\ sending' = NoSend
    /\ UNCHANGED <<sessionId, selectedSessionId, chatServer, refreshing,
                   storeData, vvars, others>>

\* refreshStore: loadAllData() returned
RefreshArrives ==
    /\ refreshing
    /\ storeData' = [storeData EXCEPT !.chatSessions = chatServer]
    /\ refreshing' = FALSE
    /\ UNCHANGED <<sessionId, viewMessages, loading, selectedSessionId,
                   sending, chatServer, vvars, others>>

\* handleNewConversation
HandleNewConversation ==
    /\ sessionId' = ChatId(clock)
    /\ selectedSessionId' = Null
    /\ viewMessages' = <<Greeting>>
    /\ UNCHANGED <<loading, sending, chatServer, refreshing, storeData,
                   vvars, others>>

\* handleLoadSession(id), clicked on an item of the sidebar
HandleLoadSession ==
    \E i \in 1..Len(storeData.chatSessions) :
        LET id == storeData.chatSessions[i].id
            session == storeData.chatSessions[FindIndex(storeData.chatSessions, id)]
        IN /\ sessionId' = session.id
           /\ selectedSessionId' = session.id
           /\ viewMessages' = session.messages
           /\ UNCHANGED <<loading, sending, chatServer, refreshing, storeData,
                          vvars, others>>

NextChat ==
    \/ Tick
    \/ HandleSend
    \/ InsightsReturn
    \/ InsightsFail
    \/ SaveReturns
    \/ SaveFails
    \/ RefreshArrives
    \/ HandleNewConversation
    \/ HandleLoadSession

SpecChat == InitFresh /\ [][NextChat]_vars

----------------------------------------------------------------------------
(* VisionView.  performAnalysis runs up to its await of analyzeImage; its  *)
(* response runs the rest.  An analysis result is told by the image and    *)
(* the task it was computed from.  The view's saves of uploads and of      *)
(* analyses are followed to their return; what they store is the subject   *)
(* of the persistence handlers above.                                      *)

\* performAnalysis(image), up to `await analyzeImage(image, task)`; the error
\* banner, which no handler reads, is left out
PerformAnalysis(image) ==
    /\ Cardinality(analyses) < MaxInFlight
    /\ analyzing' = TRUE
    /\ analyses' = analyses \cup {[image |-> image, task |-> activeCamera]}

\* the onClick of a camera button
SwitchCamera ==
    \E idx \in Cameras :
        /\ activeCamera' = idx
        /\ analysisResult' = NoResult
        /\ mainImage' = NoImage
        /\ UNCHANGED <<analyzing, saving, analyses, visionSave,
                       autosaves, storeData, cvars, others>>

\* handleUpload: reader.onload, up to `await saveGeneratedImage(...)`
HandleUpload ==
    \E base64 \in Uploads :
        /\ mainImage' = base64
        /\ PerformAnalysis(base64)
        /\ Cardinality(autosaves) < MaxAutosaves
        /\ autosaves' = autosaves \cup {[cameraName |-> activeCamera,
                                         imageData |-> base64]}
        /\ UNCHANGED <<activeCamera, analysisResult, saving, visionSave,
                       storeData, cvars, others>>

\* ... saveGeneratedImage and then refreshStore returned
AutoSaveArrives ==
    \E s \in autosaves :
        /\ Cardinality(storeData.generatedImages) < MaxStoredImages
        /\ autosaves' = autosaves \ {s}
        /\ storeData' = [storeData EXCEPT !.generatedImages =
                @ \cup {[cameraName |-> s.cameraName,
                         imageFile |-> s.imageData.name]}]
        /\ UNCHANGED <<activeCamera, mainImage, analysisResult, analyzing,
                       saving, analyses, visionSave, cvars, others>>

\* ... saveGeneratedImage threw: the error is logged
AutoSaveFails ==
    \E s \in autosaves :
        /\ autosaves' = autosaves \ {s}
        /\ UNCHANGED <<activeCamera, mainImage, analysisResult, analyzing,
                       saving, analyses, visionSave, storeData,
                       cvars, others>>

\* handleSelectSavedImage(img), for an image saved for the active camera
HandleSelectSavedImage ==
    \E img \in storeData.generatedImages :
        /\ img.cameraName = activeCamera
        /\ mainImage' = ServerUrl(img.imageFile)
        /\ analysisResult' = NoResult
        /\ PerformAnalysis(ServerUrl(img.imageFile))
        /\ UNCHANGED <<activeCamera, saving, visionSave, autosaves, storeData,
                       cvars, others>>

\* the "Analisar" button, shown for a main image with no result and no spinner
HandleAnalyzeClick ==
    /\ mainImage # NoImage
    /\ analysisResult = NoResult
    /\ ~analyzing
    /\ PerformAnalysis(mainImage)
    /\ UNCHANGED <<activeCamera, mainImage, analysisResult, saving,
                   visionSave, autosaves, storeData, cvars, others>>

\* performAnalysis: analyzeImage returned, and finally
AnalysisArrives ==
    \E r \in analyses :
        /\ analysisResult' = [image |-> r.image, task |-> r.task]
        /\ analyzing' = FALSE
        /\ analyses' = analyses \ {r}
        /\ UNCHANGED <<activeCamera, mainImage, saving,
                       visionSave, autosaves, storeData, cvars, others>>

\* performAnalysis: analyzeImage threw, the catch block and finally
AnalysisFails ==
    \E r \in analyses :
        /\ analyzing' = FALSE
        /\ analyses' = analyses \ {r}
        /\ UNCHANGED <<activeCamera, mainImage, analysisResult, saving,
                       visionSave, autosaves, storeData, cvars, others>>

\* mainImage?.startsWith('/api/')
isServerUrl == mainImage.kind = "server"

\* handleSaveAnalysis from the "Salvar Analise" button, which is shown for
\* a result with a main image and no spinner: up to `await saveVisionAnalysis`
HandleSaveAnalysis ==
    /\ analysisResult # NoResult
    /\ ~analyzing
    /\ mainImage # NoImage
    /\ ~isServerUrl
    /\ ~saving
    /\ saving' = TRUE
    /\ visionSave' = [cameraName |-> activeCamera, imageData |-> mainImage,
                      task |-> activeCamera, result |-> analysisResult]
    /\ UNCHANGED <<activeCamera, mainImage, analysisResult, analyzing,
                   analyses, autosaves, storeData, cvars, others>>

\* ... saveVisionAnalysis and refreshStore returned, and finally
SaveAnalysisReturns ==
    /\ saving
    /\ saving' = FALSE
    /\ visionSave' = NoSave
    /\ UNCHANGED <<activeCamera, mainImage, analysisResult, analyzing,
                   analyses, autosaves, storeData, cvars, others>>

\* ... saveVisionAnalysis threw: the catch block and finally
SaveAnalysisFails ==
    /\ saving
    /\ saving' = FALSE
    /\ visionSave' = NoSave
    /\ UNCHANGED <<activeCamera, mainImage, analysisResult, analyzing,
                   analyses, autosaves, storeData, cvars, others>>

NextVision ==
    \/ SwitchCamera
    \/ HandleUpload
    \/ AutoSaveArrives
    \/ AutoSaveFails
    \/ HandleSelectSavedImage
    \/ HandleAnalyzeClick
    \/ AnalysisArrives
    \/ AnalysisFails
    \/ HandleSaveAnalysis
    \/ SaveAnalysisReturns
    \/ SaveAnalysisFails

SpecVision == InitFresh /\ [][NextVision]_vars

----------------------------------------------------------------------------
(* Properties of the persistence store *)

\* the stored collection under a key (empty when the file or the key is missing)
ColOf(file, k) ==
    IF file.exists /\ k \in DOMAIN file.cols THEN file.cols[k] ELSE <<>>

Col(k) == ColOf(STORE_FILE, k)

ImageKeys == {"generatedImages", "visionAnalyses"}

\* arr without its element at index i
Without(arr, i) == SubSeq(arr, 1, i - 1) \o SubSeq(arr, i + 1, Len(arr))

\* a step in which the handler of op answered a request (a Tick changes the
\* clock only; a handler that changes nothing else leaves the state as it is)
Handled(op) ==
    /\ req'.op = op
    /\ <<STORE_FILE, IMAGES_DIR, req, res, took>>'
          # <<STORE_FILE, IMAGES_DIR, req, res, took>>

\* C1: every stored GeneratedImage or VisionAnalysis whose imageFile is
\* non-null names a file that exists in the images directory.
C1_ImageFilesExist ==
    \A k \in ImageKeys : \A i \in 1..Len(Col(k)) :
        Col(k)[i].imageFile # Null => Col(k)[i].imageFile \in IMAGES_DIR

\* C2: a successful save-generated-image adds exactly one new file to the
\* images directory and exactly one new entity at the front of
\* generatedImages, whose imageFile names that new file.
C2_SaveAddsOneFileAndOneEntity ==
    [][ (Handled("generated-image") /\ res'.status = 200) =>
          /\ IMAGES_DIR \subseteq IMAGES_DIR'
          /\ Cardinality(IMAGES_DIR' \ IMAGES_DIR) = 1
          /\ Len(Col("generatedImages")') = Len(Col("generatedImages")) + 1
          /\ Tail(Col("generatedImages")') = Col("generatedImages")
          /\ Head(Col("generatedImages")').imageFile \in IMAGES_DIR' \ IMAGES_DIR
      ]_vars

\* a payload that is absent or is not an embedded-image data URI
Malformed(d) == d.kind # "string" \/ ~DataUriMatch(d.chars)

\* C3: for every malformed payload, save-generated-image fails with a
\* request-level error (4xx), writes no image file and adds no entity.
C3_MalformedIsRejected ==
    [][ (Handled("generated-image") /\ Malformed(req'.imageData)) =>
          /\ res'.status \in 400..499
          /\ IMAGES_DIR' = IMAGES_DIR
          /\ Col("generatedImages")' = Col("generatedImages")
      ]_vars


\* C4: a successful delete removes the entity; when the entity is a
\* GeneratedImage or VisionAnalysis with a non-null imageFile the named file
\* is removed from the images directory, otherwise no file is deleted.
C4_DeleteRemovesEntityAndFile ==
    [][ (Handled("delete") /\ res'.status = 200) =>
          LET key == collectionMap(req'.collection)
              arr == Col(key)
          IN \E i \in 1..Len(arr) :
                /\ arr[i].id = req'.id
                /\ ColOf(STORE_FILE', key) = Without(arr, i)
                /\ IF key \in ImageKeys /\ arr[i].imageFile # Null
                   THEN /\ arr[i].imageFile \notin IMAGES_DIR'
                        /\ IMAGES_DIR' = IMAGES_DIR \ {arr[i].imageFile}
                   ELSE IMAGES_DIR' = IMAGES_DIR
      ]_vars

\* a delete removed an entity together with its image file
C4_Witness ==
    /\ req.op = "delete"
    /\ res.status = 200
    /\ took = "deleted entity with image"

\* C5: after a successful delete of (collection, id), deleting the same
\* (collection, id) again answers 404.
C5_SecondDeleteNotFound ==
    [][ (req.op = "delete" /\ res.status = 200 /\ Handled("delete") /\ req' = req) =>
          res'.status = 404
      ]_vars

\* the session an upsert or a delete with this id addresses
FirstWith(arr, id) == arr[FindIndex(arr, id)]

C7_LoadInjectsEveryKey ==
    req.op = "get" =>
        /\ res.status = 200
        /\ \A k \in Keys :
              /\ k \in DOMAIN res.body.cols
              /\ k \notin DOMAIN STORE_FILE.cols => res.body.cols[k] = <<>>

\* C7 as amended: a load succeeds and returns the stored keys unchanged plus
\* generatedImages, which is an empty array when the file lacks it; no other
\* missing key is added.
C7_LoadInjectsGeneratedImages ==
    req.op = "get" =>
        /\ res.status = 200
        /\ DOMAIN res.body.cols = DOMAIN STORE_FILE.cols \cup {"generatedImages"}
        /\ \A k \in DOMAIN res.body.cols : res.body.cols[k] = Col(k)

\* a document without generatedImages, and without another key, was loaded
C7_Witness ==
    /\ req.op = "get"
    /\ STORE_FILE.exists
    /\ "generatedImages" \notin DOMAIN STORE_FILE.cols
    /\ res.body.cols["generatedImages"] = <<>>

\* C8: no two entities of one collection share an id.
C8_UniqueIds ==
    \A k \in Keys : \A i \in 1..Len(Col(k)) : \A j \in 1..Len(Col(k)) :
        i # j => Col(k)[i].id # Col(k)[j].id

\* the creation time an entity records
EntityTime(k, e) == IF k = "chatSessions" THEN e.startedAt ELSE e.timestamp

NewestFirst ==
    \A k \in Keys : \A i \in 1..Len(Col(k)) : \A j \in i..Len(Col(k)) :
        EntityTime(k, Col(k)[i]) >= EntityTime(k, Col(k)[j])

SaveOps == {"generated-image", "vision", "chat", "sustainability", "dashboard"}

\* C9: a save that creates an entity puts it at the front of its collection
\* and leaves the entities already there in their order; collections stay
\* ordered by creation time, newest first; a load that follows the save
\* lists the new entity first.
C9_NewestFirst ==
    [][ /\ ((\E op \in SaveOps : Handled(op)) /\ took' = "created") =>
              \E k \in Keys :
                  /\ Col(k)' = <<res'.body>> \o Col(k)
                  /\ \A o \in Keys \ {k} : Col(o)' = Col(o)
        /\ (Handled("get") /\ took = "created") =>
              \E k \in DOMAIN res'.body.cols :
                  /\ Len(res'.body.cols[k]) > 0
                  /\ res'.body.cols[k][1] = res.body
        /\ NewestFirst'
      ]_vars

\* an entity was created in front of an older one
C9_Witness ==
    /\ took = "created"
    /\ \E k \in Keys :
          /\ Len(Col(k)) >= 2
          /\ Col(k)[1] = res.body
          /\ Col(k)[2] # res.body

----------------------------------------------------------------------------
(* Properties of the error classifier *)

ErrorClasses ==
    { <<"RATE_LIMITED", 429>>, <<"SERVICE_UNAVAILABLE", 503>>,
      <<"BAD_REQUEST", 400>>, <<"AUTH_ERROR", 403>>, <<"INTERNAL_ERROR", 500>> }

\* pieces that belong to no class
NeutralPieces == {"fetch failed", "unavailable"}
IsNeutral(msg) == \A i \in 1..Len(msg) : msg[i] \in NeutralPieces

\* C10: every failure is answered with one of the five classes and that
\* class's status; an upstream 401 and an upstream 403 both give AUTH_ERROR
\* with 403, a safety rejection gives BAD_REQUEST with 400, and a failure
\* with no indicator gives INTERNAL_ERROR with 500.
C10_FiveClasses ==
    thrown # NoError =>
        /\ <<gres.code, gres.status>> \in ErrorClasses
        /\ (thrown.status \in {401, 403} /\ IsNeutral(thrown.message))
              => <<gres.code, gres.status>> = <<"AUTH_ERROR", 403>>
        /\ (thrown.status = 0 /\ thrown.statusCode = 0
              /\ thrown.httpStatusCode = 0 /\ thrown.code = 0)
              => /\ thrown.message = <<"SAFETY">>
                    => <<gres.code, gres.status>> = <<"BAD_REQUEST", 400>>
                 /\ IsNeutral(thrown.message)
                    => <<gres.code, gres.status>> = <<"INTERNAL_ERROR", 500>>

\* an upstream 401 was answered
C10_Witness ==
    /\ thrown # NoError
    /\ thrown.status = 401
    /\ gres.status = 403

\* the message each class answers with, whatever the upstream error says
CannedMessage(code) ==
    CASE code = "RATE_LIMITED" -> RateLimitMessage
      [] code = "SERVICE_UNAVAILABLE" -> UnavailableMessage
      [] code = "BAD_REQUEST" -> BadRequestMessage
      [] code = "AUTH_ERROR" -> AuthMessage
      [] code = "INTERNAL_ERROR" -> <<"Erro interno ao chamar a API Gemini: ">>

\* C11: the error message answered for a remote failure is the fixed message
\* of its class and holds no piece of the upstream error text, so two
\* failures of one class are answered with the same body.
C11_CannedMessagesOnly ==
    (thrown # NoError /\ calls # <<>>) =>
        /\ gres.error = CannedMessage(gres.code)
        /\ \A i \in 1..Len(gres.error) : \A j \in 1..Len(ErrorMsg(thrown)) :
              gres.error[i] # ErrorMsg(thrown)[j]

\* the classes in their priority order, and the indicators of each
PriorityOrder == <<"RATE_LIMITED", "SERVICE_UNAVAILABLE", "BAD_REQUEST",
                   "AUTH_ERROR", "INTERNAL_ERROR">>

StatusIndicators(code) ==
    CASE code = "RATE_LIMITED" -> {429}
      [] code = "SERVICE_UNAVAILABLE" -> {503}
      [] code = "BAD_REQUEST" -> {400}
      [] code = "AUTH_ERROR" -> {401, 403}
      [] OTHER -> {}

SubstringIndicators(code) ==
    CASE code = "RATE_LIMITED" -> {"429", "RESOURCE_EXHAUSTED"}
      [] code = "SERVICE_UNAVAILABLE" -> {"503", "UNAVAILABLE"}
      [] code = "BAD_REQUEST" -> {"400", "INVALID_ARGUMENT", "SAFETY"}
      [] code = "AUTH_ERROR" -> {"401", "403", "PERMISSION_DENIED",
                                 "UNAUTHENTICATED"}
      [] OTHER -> {}

\* substrings looked for whatever their case
AnyCaseIndicators(code) ==
    IF code = "RATE_LIMITED" THEN {"rate limit", "quota"} ELSE {}

\* the error shows an indicator of the class; every error counts as internal
Indicates(error, code) ==
    \/ code = "INTERNAL_ERROR"
    \/ ErrorStatus(error) \in StatusIndicators(code)
    \/ \E x \in SubstringIndicators(code) : Includes(ErrorMsg(error), x)
    \/ \E x \in AnyCaseIndicators(code) : LowerIncludes(ErrorMsg(error), x)

\* C12: a failure that shows indicators of several classes is answered with
\* the first of them in the priority order; a status 403 whose message holds
\* "429" or "quota" is rate-limited.
C12_FirstClassInPriorityOrder ==
    thrown # NoError =>
        /\ \E i \in 1..Len(PriorityOrder) :
              /\ gres.code = PriorityOrder[i]
              /\ Indicates(thrown, PriorityOrder[i])
              /\ \A j \in 1..(i - 1) : ~Indicates(thrown, PriorityOrder[j])
        /\ (ErrorStatus(thrown) = 403
              /\ (Includes(thrown.message, "429") \/ Includes(thrown.message, "quota")))
              => <<gres.code, gres.status>> = <<"RATE_LIMITED", 429>>

\* a failure with status 403 and a quota message was answered as rate-limited
C12_Witness ==
    /\ thrown # NoError
    /\ thrown.status = 403
    /\ thrown.message = <<"quota", "PERMISSION_DENIED">>
    /\ gres.code = "RATE_LIMITED"

\* the remote call returned a text that JSON.parse rejects
Unparsable(response) ==
    /\ response.candidates > 0
    /\ response.text # ""
    /\ ~JSONParse(response.text).ok

\* C13: when the remote call returns a text that is not JSON, every text
\* endpoint answers 200 with a default body whose charts list is empty, and
\* no error was caught or classified.
C13_ParseFailureGivesDefault ==
    (gpc = "done" /\ greq.endpoint \in TextEndpoints /\ Unparsable(remote)) =>
        /\ gres = Ok
        /\ thrown = NoError
        /\ payload # NoPayload
        /\ payload.charts = <<>>
        /\ greq.endpoint = "analyze-image"
              => payload.summary = "Erro ao processar a resposta da IA."
        /\ greq.endpoint # "analyze-image" => payload.text = remote.text

\* the fallback model answered feedback-analysis with a text that is not JSON
C13_Witness ==
    /\ gpc = "done"
    /\ greq.endpoint = "feedback-analysis"
    /\ calls = <<textModel, textModelFallback>>
    /\ Unparsable(remote)
    /\ gres.status = 200

----------------------------------------------------------------------------
(* Properties of the persistence routes, continued *)

\* C14: serve-image sends only files of the images directory, whatever the
\* filename.
C14_ServesOnlyImages ==
    (req.op = "serve-image" /\ res.status = 200) =>
        /\ res.body.file.dir = "data/images"
        /\ res.body.file.name \in IMAGES_DIR

\* the names of the collection table and the ids stored under a name
KnownCollections == {"generated-images", "vision", "chat", "sustainability",
                     "dashboard"}
StoredIds(collection) ==
    {Col(collectionMap(collection))[i].id :
        i \in 1..Len(Col(collectionMap(collection)))}

\* the document a load yields holds the collection
HoldsCollection(collection) ==
    \/ ~STORE_FILE.exists
    \/ collectionMap(collection) \in DOMAIN STORE_FILE.cols
    \/ collectionMap(collection) = "generatedImages"

C16_UnknownCollectionRejected ==
    [][ (Handled("delete") /\ req'.collection \notin KnownCollections) =>
          /\ res'.status \in 400..499
          /\ \A k \in Keys : Col(k)' = Col(k)
          /\ IMAGES_DIR' = IMAGES_DIR
      ]_vars

\* C17: every error response carries an error message and an error-kind
\* code, on the persistence routes and on the gateway routes alike.
C17_ErrorBodiesCarryCode ==
    /\ res.status >= 400 =>
          /\ "error" \in DOMAIN res.body
          /\ "code" \in DOMAIN res.body
    /\ gres.status >= 400 =>
          /\ gres.error # <<>>
          /\ gres.code # ""

\* the request handled in this step addresses the entity e of collection k:
\* it deletes it or, for a chat session, replaces it
Addresses(k, e) ==
    \/ /\ Handled("delete")
       /\ collectionMap(req'.collection) = k
       /\ req'.id = e.id
    \/ /\ Handled("chat")
       /\ k = "chatSessions"
       /\ req'.id = e.id

\* the entities stored in a collection
Stored(file, k) == {ColOf(file, k)[i] : i \in 1..Len(ColOf(file, k))}
AllStored(file) == UNION {Stored(file, k) : k \in Keys}

\* a step that drops an entity an earlier request stored, though the
\* request handled does not address that entity
LostUpdateStep ==
    \E k \in Keys : \E e \in Stored(STORE_FILE, k) :
        /\ ~Addresses(k, e)
        /\ e \notin Stored(STORE_FILE', k)

\* a request can be handled here in a way that loses an update
CanLoseUpdate == ENABLED (Next /\ LostUpdateStep)

C19_UnparsablePayloadTolerated ==
    [][ (/\ Handled("vision")
         /\ HoldsCollection("vision")
         /\ Malformed(req'.imageData)) =>
          /\ res'.status = 200
          /\ res'.body.imageFile = Null
          /\ IMAGES_DIR' = IMAGES_DIR
          /\ Col("visionAnalyses")' = <<res'.body>> \o Col("visionAnalyses")
      ]_vars

\* C20: a chat upsert that creates a session gives it equal startedAt and
\* lastMessageAt.
C20_CreatedSessionTimesEqual ==
    [][ (Handled("chat") /\ took' = "created") =>
          res'.body.startedAt = res'.body.lastMessageAt
      ]_vars

\* the operations that load the store
LoadingOps == SaveOps \cup {"get", "delete"}

\* C21: when store.json is absent, the operation that loads the store first
\* creates it with version 1 and the five collections; afterwards the file
\* holds just what that operation stored (nothing, or the one entity it
\* created), and a GET answers the empty document.
C21_LazyCreation ==
    [][ ((\E op \in LoadingOps : Handled(op)) /\ ~STORE_FILE.exists) =>
          /\ STORE_FILE'.exists
          /\ STORE_FILE'.version = 1
          /\ DOMAIN STORE_FILE'.cols = Keys
          /\ IF took' = "created"
             THEN \E k \in Keys :
                     STORE_FILE'.cols = [EmptyCols EXCEPT ![k] = <<res'.body>>]
             ELSE STORE_FILE'.cols = EmptyCols
          /\ Handled("get") =>
                /\ res'.status = 200
                /\ res'.body = [version |-> 1, cols |-> EmptyCols]
      ]_vars

\* a GET answered the empty document and the store file holds it
C21_Witness ==
    /\ req.op = "get"
    /\ res.status = 200
    /\ res.body = [version |-> 1, cols |-> EmptyCols]
    /\ STORE_FILE = FileOf(1, EmptyCols)
    /\ IMAGES_DIR = {}

\* C22: a text request invokes the primary model once and the fallback model
\* once exactly when the primary model failed; image generation invokes
\* its model once; nothing is invoked a second time.
C22_InvocationCounts ==
    /\ greq.endpoint \in TextEndpoints =>
          /\ calls \in {<<>>, <<textModel>>, <<textModel, textModelFallback>>}
          /\ (warned # NoError) <=> (calls = <<textModel, textModelFallback>>)
          /\ gpc = "primary" => calls = <<textModel>>
          /\ gpc = "fallback" => calls = <<textModel, textModelFallback>>
          /\ remote # NoRemote => calls # <<>>
    /\ greq.endpoint = "generate-image" =>
          /\ calls = <<imageModel>>
          /\ warned = NoError
    /\ greq.endpoint = "none" => calls = <<>>

\* both models of a text request were invoked and both failed
C22_Witness ==
    /\ greq.endpoint = "store-insights"
    /\ gpc = "done"
    /\ calls = <<textModel, textModelFallback>>
    /\ warned # NoError
    /\ thrown # NoError

\* C23: no step of a gateway handler changes the store document or the
\* images directory, whether the request succeeds or fails.
C23_GatewayLeavesStoreAlone ==
    [][ /\ STORE_FILE' = STORE_FILE
        /\ IMAGES_DIR' = IMAGES_DIR ]_vars

\* the gateway read a stored image, answered 200, and the store is as before
C23_Witness ==
    /\ greq.endpoint = "analyze-image"
    /\ greq.imageData.kind = "string"
    /\ greq.imageData.prefix = ImagesPrefix
    /\ gpc = "done"
    /\ gres.status = 200
    /\ IMAGES_DIR = {ImgFile(0)}
    /\ Col("visionAnalyses") = <<SavedAnalysis>>

\* both model invocations of a text request failed
BothFailed ==
    /\ greq.endpoint \in TextEndpoints
    /\ gpc = "done"
    /\ warned # NoError
    /\ thrown # NoError

\* C30: when both models fail, the status and code sent are those of the
\* first class, in priority order, that the fallback model's error
\* indicates, whatever the primary model's error was.
C30_SecondaryErrorClassified ==
    BothFailed =>
        /\ <<gres.code, gres.status>> \in ErrorClasses
        /\ \A i \in 1..Len(PriorityOrder) :
              (/\ Indicates(thrown, PriorityOrder[i])
               /\ \A j \in 1..(i - 1) : ~Indicates(thrown, PriorityOrder[j]))
              => gres.code = PriorityOrder[i]

\* the primary model was rate-limited, the fallback model failed with a
\* network error, and the caller is told INTERNAL_ERROR
C30_Witness ==
    /\ BothFailed
    /\ warned.status = 429
    /\ thrown.message = <<"fetch failed">>
    /\ thrown.status = 0
    /\ gres.code = "INTERNAL_ERROR"
    /\ gres.status = 500

\* C28: a successful delete removes the first entity of the addressed
\* collection whose id matches and nothing else: the other entities keep
\* their order, the other collections keep their entities, and no image file
\* goes except the one the removed entity names.
C28_DeleteRemovesExactlyFirstMatch ==
    [][ (Handled("delete") /\ res'.status = 200) =>
          LET key == collectionMap(req'.collection)
              arr == Col(key)
              after == ColOf(STORE_FILE', key)
          IN \E i \in 1..Len(arr) :
                /\ arr[i].id = req'.id
                /\ \A j \in 1..(i - 1) : arr[j].id # req'.id
                /\ Len(after) = Len(arr) - 1
                /\ \A j \in 1..(i - 1) : after[j] = arr[j]
                /\ \A j \in i..Len(after) : after[j] = arr[j + 1]
                /\ \A o \in Keys \ {key} : ColOf(STORE_FILE', o) = Col(o)
                /\ IMAGES_DIR' \subseteq IMAGES_DIR
                /\ IMAGES_DIR \ IMAGES_DIR' \subseteq
                      (IF key \in ImageKeys THEN {arr[i].imageFile} ELSE {})
      ]_vars

\* of two entities with one id the first was deleted and the second stays
C28_Witness ==
    /\ req.op = "delete"
    /\ res.status = 200
    /\ LET key == collectionMap(req.collection)
       IN /\ Len(Col(key)) = 1
          /\ Col(key)[1].id = req.id

\* C29: a chat save whose id matches a stored session puts the new session
\* at the index of the first match; chatSessions keeps its length and its
\* other sessions, and no other collection and no image file changes.
C29_ReplaceInPlace ==
    [][ (/\ Handled("chat")
         /\ res'.status = 200
         /\ \E i \in 1..Len(Col("chatSessions")) :
                Col("chatSessions")[i].id = req'.id) =>
          LET arr == Col("chatSessions")
              after == ColOf(STORE_FILE', "chatSessions")
          IN \E i \in 1..Len(arr) :
                /\ arr[i].id = req'.id
                /\ \A j \in 1..(i - 1) : arr[j].id # req'.id
                /\ Len(after) = Len(arr)
                /\ after[i] = res'.body
                /\ after[i].id = req'.id
                /\ \A j \in (1..Len(arr)) \ {i} : after[j] = arr[j]
                /\ \A o \in Keys \ {"chatSessions"} : ColOf(STORE_FILE', o) = Col(o)
                /\ IMAGES_DIR' = IMAGES_DIR
      ]_vars

\* the second of two sessions was updated and is still the second
C29_Witness ==
    /\ req.op = "chat"
    /\ took = "replaced"
    /\ Len(Col("chatSessions")) = 2
    /\ Col("chatSessions")[2] = res.body
    /\ Col("chatSessions")[1].id # req.id
    /\ res.body.lastMessageAt > res.body.startedAt

\* C27: from an absent store, whatever persistence operations have run,
\* every file in the images directory is the imageFile of a stored
\* GeneratedImage or VisionAnalysis.
C27_NoOrphanFiles ==
    \A f \in IMAGES_DIR :
        \E k \in ImageKeys : \E i \in 1..Len(Col(k)) : Col(k)[i].imageFile = f

\* after a delete that removed one image file, another file is still there
\* and referenced
C27_Witness ==
    /\ req.op = "delete"
    /\ took = "deleted entity with image"
    /\ IMAGES_DIR # {}
    /\ C27_NoOrphanFiles

\* C24: when the write of store.json fails in an image save that has
\* written its image file, the answer is a 5xx, the store holds no entity
\* it did not hold before, the file the save wrote is in the images
\* directory and no file has been removed.
C24_FailedWriteKeepsImageFile ==
    [][ ((Handled("generated-image") \/ Handled("vision")) /\ took' = "write failed") =>
          /\ res'.status \in 500..599
          /\ \A k \in Keys :
                \A i \in 1..Len(ColOf(STORE_FILE', k)) :
                    \E j \in 1..Len(Col(k)) : ColOf(STORE_FILE', k)[i] = Col(k)[j]
          /\ \A k \in Keys : Len(ColOf(STORE_FILE', k)) <= Len(Col(k))
          /\ IMAGES_DIR \subseteq IMAGES_DIR'
          /\ \E f \in IMAGES_DIR' :
                /\ f[1] = (IF req'.op = "vision" THEN "img" ELSE "gen")
                /\ f[2] \in clock..clock'
      ]_vars

\* a save failed at its store write: the store is readable and empty, and
\* the image file the save wrote is on disk
C24_Witness ==
    /\ took = "write failed"
    /\ res.status = 500
    /\ Intact
    /\ STORE_FILE.exists
    /\ \A k \in Keys : Col(k) = <<>>
    /\ IMAGES_DIR # {}

\* C25: every saveChatSession call, and so every session the server holds,
\* carries under an id only messages written under that id (and the
\* greeting).
C25_SavesKeepConversationsApart ==
    /\ sending.phase = "save" =>
          \A i \in 1..Len(sending.messages) :
              sending.messages[i].conv \in {Null, sending.sessionId}
    /\ \A n \in 1..Len(chatServer) :
          \A i \in 1..Len(chatServer[n].messages) :
              chatServer[n].messages[i].conv \in {Null, chatServer[n].id}

\* C26: the analysis result shown was computed from the main image with the
\* active camera's task, what "Salvar Analise" sends pairs an image with a
\* result computed from it with the task sent, and with no main image and
\* no analysis in flight no result is held.
C26_ResultMatchesMainImage ==
    /\ (analysisResult # NoResult /\ ~analyzing) =>
          /\ mainImage # NoImage
          /\ analysisResult.image = mainImage
          /\ analysisResult.task = activeCamera
    /\ visionSave # NoSave =>
          /\ visionSave.result.image = visionSave.imageData
          /\ visionSave.result.task = visionSave.task
    /\ (mainImage = NoImage /\ analyses = {}) => analysisResult = NoResult

====
